---- MODULE Spec2Model ----
(***************************************************************************)
(* Message handlers of sirbot-pyslackers (endpoints/slack/messages.py).    *)
(* The rule table and the handler bodies are translated from the source;   *)
(* the dispatcher that evaluates the rules is the framework's and is       *)
(* modelled from the specification (sections 4.1 - 4.3 and 5).             *)
(* A text is a sequence of one-character strings.                          *)
(***************************************************************************)
EXTENDS Integers, Sequences, FiniteSets, TLC

\* ------------------------------------------------------------------ bounds
\* number of deliveries handled concurrently in SpecConc
MaxDeliveries == 2

Deliveries == 1..MaxDeliveries

\* ------------------------------------------------------------- characters
UpperChars == {"A", "B", "C", "H", "T", "U"}
LowerChars == {"a", "b", "c", "e", "g", "h", "i", "l", "n", "o", "p", "s", "t", "x"}
DigitChars == {"1", "2"}
WordChars == UpperChars \cup LowerChars \cup DigitChars \cup {"_"}
SpaceChars == {" "}

\* re.IGNORECASE folds both sides to one case
Lower(c) ==
    CASE c = "A" -> "a" [] c = "B" -> "b" [] c = "C" -> "c"
      [] c = "H" -> "h" [] c = "T" -> "t" [] c = "U" -> "u" [] OTHER -> c

Fold(c, ci) == IF ci THEN Lower(c) ELSE c

\* s[k:] of Python, k >= 0 (0-based)
Slice(s, k) == IF k >= Len(s) THEN <<>> ELSE SubSeq(s, k + 1, Len(s))

\* lit occurs in s at 0-based offset k
OccursAt(s, lit, k, ci) ==
    /\ k + Len(lit) <= Len(s)
    /\ \A j \in 1..Len(lit) : Fold(s[k + j], ci) = Fold(lit[j], ci)

\* str.find: 0-based offset of the first occurrence, -1 when there is none
Find(s, lit) ==
    LET hits == {k \in 0..Len(s) : OccursAt(s, lit, k, FALSE)}
    IN IF hits = {} THEN -1 ELSE CHOOSE k \in hits : \A k2 \in hits : k <= k2

\* str.count: number of non-overlapping occurrences, scanning left to right
RECURSIVE Count(_, _)
Count(s, lit) ==
    LET k == Find(s, lit)
    IN IF k = -1 THEN 0 ELSE 1 + Count(Slice(s, k + Len(lit)), lit)

\* str.split()[0]: the first whitespace-delimited token; <<>> stands for
\* the IndexError raised when there is none
FirstToken(s) ==
    LET starts == {k \in 1..Len(s) : s[k] \notin SpaceChars}
    IN IF starts = {} THEN <<>>
       ELSE LET b == CHOOSE k \in starts : \A k2 \in starts : k <= k2
                ends == {k \in b..Len(s) : k = Len(s) \/ s[k + 1] \in SpaceChars}
                e == CHOOSE k \in ends : \A k2 \in ends : k <= k2
            IN SubSeq(s, b, e)

\* ---------------------------------------------------------------- regexes
\* the character class [A-Z.] of the quote patterns
StockClass == UpperChars \cup {"."}

IsWord(s, k) == k >= 1 /\ k <= Len(s) /\ s[k] \in WordChars

\* \b between positions k and k+1 (1-based characters)
Boundary(s, k) == IsWord(s, k) # IsWord(s, k + 1)

\* STOCK_REGEX = \$\b(?P<symbol>[A-Z.]{1,5})\b , searched: the leftmost '$'
\* that admits a symbol, the longest symbol there.  <<>> when no match.
StockLens(s, i) ==
    {n \in 1..5 : /\ i + n <= Len(s)
                  /\ \A j \in 1..n : s[i + j] \in StockClass
                  /\ Boundary(s, i)
                  /\ Boundary(s, i + n)}

STOCK_REGEX(s) ==
    LET hits == {i \in 1..Len(s) : s[i] = "$" /\ StockLens(s, i) # {}}
    IN IF hits = {} THEN <<>>
       ELSE LET i == CHOOSE k \in hits : \A k2 \in hits : k <= k2
                n == CHOOSE m \in StockLens(s, i) : \A m2 \in StockLens(s, i) : m >= m2
            IN SubSeq(s, i + 1, i + n)

\* TELL_REGEX = "tell (<(#|@)(?P<to_id>[A-Z0-9]*)(|.*)?>) (?P<msg>.*)",
\* matched at the start, case sensitive.  Result [ok, to_id, msg].
TellPrefix == <<"t", "e", "l", "l", " ", "<">>

IdChars == UpperChars \cup DigitChars

TELL_REGEX(s) ==
    LET headOk == /\ OccursAt(s, TellPrefix, 0, FALSE)
                  /\ Len(s) >= 7
                  /\ s[7] \in {"#", "@"}
        \* to_id is the longest run of [A-Z0-9] from position 8
        runs == {n \in 0..(Len(s) - 7) : \A j \in 1..n : s[7 + j] \in IdChars}
        n == CHOOSE m \in runs : \A m2 \in runs : m >= m2
        \* (|.*)? tries the empty alternative first, then the greedy one
        closers == {k \in (8 + n)..(Len(s) - 1) : s[k] = ">" /\ s[k + 1] = " "}
        k == IF (8 + n) \in closers THEN 8 + n
             ELSE CHOOSE c \in closers : \A c2 \in closers : c >= c2
    IN IF headOk /\ closers # {}
       THEN [ok |-> TRUE, to_id |-> SubSeq(s, 8, 7 + n), msg |-> Slice(s, k + 1)]
       ELSE [ok |-> FALSE, to_id |-> <<>>, msg |-> <<>>]

\* re.search("<@(.*)>", text): leftmost "<@", greedy up to the last '>'
InspectSearch(s) ==
    LET opens == {i \in 1..Len(s) : OccursAt(s, <<"<", "@">>, i - 1, FALSE)
                                   /\ \E k \in (i + 2)..Len(s) : s[k] = ">"}
    IN IF opens = {} THEN [ok |-> FALSE, id |-> <<>>]
       ELSE LET i == CHOOSE a \in opens : \A a2 \in opens : a <= a2
                cl == {k \in (i + 2)..Len(s) : s[k] = ">"}
                k == CHOOSE c \in cl : \A c2 \in cl : c >= c2
            IN [ok |-> TRUE, id |-> SubSeq(s, i + 2, k - 1)]

\* The patterns handed to on_message, by kind:
\*   "lit"    a literal searched anywhere        ("hello", "g#")
\*   "prefix" '^' followed by a literal          ("^tell", "^inspect", "^help")
\*   "any"    ".*"
\*   "quote"  <lead>\$[A-Z\.]{1,5}               (lead is "s" or "c")
PatternSearch(p, s) ==
    CASE p.kind = "lit" -> \E k \in 0..Len(s) : OccursAt(s, p.lit, k, p.ci)
      [] p.kind = "prefix" -> OccursAt(s, p.lit, 0, p.ci)
      [] p.kind = "any" -> TRUE
      [] p.kind = "quote" ->
            \E k \in 1..Len(s) : /\ k + 2 <= Len(s)
                                 /\ Fold(s[k], p.ci) = Fold(p.lit[1], p.ci)
                                 /\ s[k + 1] = "$"
                                 /\ s[k + 2] \in StockClass

\* --------------------------------------------------------------- registry
Lit(l, ci) == [kind |-> "lit", lit |-> l, ci |-> ci]
Prefix(l, ci) == [kind |-> "prefix", lit |-> l, ci |-> ci]
AnyText(ci) == [kind |-> "any", lit |-> <<>>, ci |-> ci]
Quote(l) == [kind |-> "quote", lit |-> l, ci |-> FALSE]

NoSubtype == "none"

\* plugin.on_message(pattern, handler, flags, mention, admin, subtype, wait):
\* appends one rule to the ordered rule list
on_message(rules, pattern, handler, mention, admin, subtype, wait) ==
    Append(rules, [pattern |-> pattern, handler |-> handler, mention |-> mention,
                   admin |-> admin, subtype |-> subtype, wait |-> wait])

\* the ten registrations, in source order
Registrations ==
    LET r1 == on_message(<<>>, Lit(<<"h", "e", "l", "l", "o">>, TRUE), "hello",
                         TRUE, FALSE, NoSubtype, TRUE)
        r2 == on_message(r1, Prefix(<<"t", "e", "l", "l">>, TRUE), "tell",
                         TRUE, TRUE, NoSubtype, TRUE)
        r3 == on_message(r2, AnyText(TRUE), "mention",
                         TRUE, FALSE, NoSubtype, TRUE)
        r4 == on_message(r3, AnyText(FALSE), "save_in_database",
                         FALSE, FALSE, NoSubtype, FALSE)
        r5 == on_message(r4, AnyText(FALSE), "channel_topic",
                         FALSE, FALSE, "channel_topic", TRUE)
        r6 == on_message(r5, Lit(<<"g", "#">>, FALSE), "github_repo_link",
                         FALSE, FALSE, NoSubtype, TRUE)
        r7 == on_message(r6, Prefix(<<"i", "n", "s", "p", "e", "c", "t">>, TRUE), "inspect",
                         TRUE, TRUE, NoSubtype, TRUE)
        r8 == on_message(r7, Prefix(<<"h", "e", "l", "p">>, TRUE), "help_message",
                         TRUE, FALSE, NoSubtype, TRUE)
        r9 == on_message(r8, Quote(<<"s">>), "stock_quote",
                         FALSE, FALSE, NoSubtype, FALSE)
    IN on_message(r9, Quote(<<"c">>), "crypto_quote",
                  FALSE, FALSE, NoSubtype, FALSE)

\* registrations with one keyword changed
HelloWithoutMention == [Registrations EXCEPT ![1].mention = FALSE]
TellWithoutAdmin == [Registrations EXCEPT ![2].admin = FALSE]
HelloNotAwaited == [Registrations EXCEPT ![1].wait = FALSE]
HelpForAdmins == [Registrations EXCEPT ![8].admin = TRUE]
SaveAwaited == [Registrations EXCEPT ![4].wait = TRUE]
StockAwaited == [Registrations EXCEPT ![9].wait = TRUE]

\* create_endpoints(plugin): the rule list after the registrations
create_endpoints == Registrations

NumRules == 10
Rules == 1..NumRules

\* rule indexes, in registration order
R_hello == 1
R_tell == 2
R_mention == 3
R_save == 4
R_topic == 5
R_github == 6
R_inspect == 7
R_help == 8
R_stock == 9
R_crypto == 10

\* --------------------------------------------------------------- identity
\* ids are texts too: the handlers cut them out of message texts
ADMIN_CHANNEL == <<"C", "A">>
PlainChannel == <<"C", "1">>
BotUserId == <<"U", "B">>
AdminUser == <<"U", "2">>
PlainUser == <<"U", "1">>

BotIdentity == [bot_user_id |-> BotUserId, admins |-> {AdminUser}]

\* --------------------------------------------------------------- messages
\* hasText / hasTs tell an absent key from an empty value; a timestamp is
\* <<seconds, fraction>> ("seconds.fraction"), <<>> when empty
NoMsg == [present |-> FALSE, hasText |-> FALSE, text |-> <<>>, user |-> PlainUser,
          channel |-> PlainChannel, hasTs |-> FALSE, ts |-> <<>>, subtype |-> NoSubtype,
          mention |-> FALSE]

Msg(hasText, text, user, channel, hasTs, ts, subtype, mention) ==
    [present |-> TRUE, hasText |-> hasText, text |-> text, user |-> user,
     channel |-> channel, hasTs |-> hasTs, ts |-> ts, subtype |-> subtype,
     mention |-> mention]

\* ------------------------------------------------------------- predicates
\* the predicates with the pattern searched in whatever text there is
MatchesAnyText(rule, m, identity) ==
    /\ m.present
    /\ PatternSearch(rule.pattern, m.text)
    /\ rule.mention => m.mention
    /\ rule.admin => m.user \in identity.admins
    /\ rule.subtype # NoSubtype => m.subtype = rule.subtype

\* section 4.1: all predicates of a rule are ANDed; absent or empty text is
\* a non-match of the pattern predicate; the mention predicate consumes the
\* flag precomputed by the transport adapter
Matches(rule, m, identity) ==
    /\ m.present
    /\ m.hasText /\ m.text # <<>> /\ PatternSearch(rule.pattern, m.text)
    /\ rule.mention => m.mention
    /\ rule.admin => m.user \in identity.admins
    /\ rule.subtype # NoSubtype => m.subtype = rule.subtype

\* ------------------------------------------------------------------ state
VARIABLES
    registry,   \* the ordered rule list built by create_endpoints
    identity,   \* bot user id and admin set
    pgLoaded,   \* "pg" in app["plugins"]
    pg,         \* the store: messages (rows), channels and users (ids)
    received,   \* per delivery: the message as delivered
    msg,        \* per delivery: the message object the handlers share
    pos,        \* per delivery: 0 before dispatch, the rule whose blocking
                \* handler is awaited, NumRules + 1 after dispatch returned
    observed,   \* per delivery: rules whose outcome the dispatcher awaited
    h,          \* per delivery and rule: position of the handler
    invoked,    \* per delivery and rule: number of invocations
    loc,        \* per delivery and rule: locals of the handler
    out,        \* per delivery and rule: collaborator calls issued, in order
    log         \* per delivery and rule: levels logged by the handler

vars == <<registry, identity, pgLoaded, pg, received, msg, pos, observed,
          h, invoked, loc, out, log>>

Terminal == {"done", "failed"}

\* message.response(): a draft for the same channel
Response(m) == [channel |-> m.channel, text |-> <<>>, att |-> <<>>]

NoLoc == [resp |-> [channel |-> <<>>, text |-> <<>>, att |-> <<>>],
          sym |-> <<>>, left |-> 0, res |-> <<>>]

Call(api, arg) == [api |-> api, arg |-> arg]

\* ------------------------------------------------------------------ texts
T_hello == <<"H", "e", "l", "l", "o">>
T_tell == <<"t", "e", "l", "l", " ", "<", "#", "C", "2", ">", " ", "x">>
T_repo == <<"g", "#", "a">>
T_norepo == <<"g", "#">>
T_inspect == <<"i", "n", "s", "p", "e", "c", "t", " ", "<", "@", "U", "1", ">">>
T_multi == <<"h", "e", "l", "p", " ", "g", "#", "a", " ", "s", "$", "A">>
T_help == <<"h", "e", "l", "p">>
T_stock == <<"s", "$", "A">>
T_dot == <<"s", "$", ".">>
T_crypto == <<"c", "$", "B">>

\* texts for github_repo_link and tell
T_repos2 == <<"g", "#", "a", " ", "g", "#", "b">>
T_repos3 == <<"g", "#", "a", " ", "g", "#", "b", " ", "g", "#", "c">>
T_glued == <<"g", "#", "a", "g", "#", "b">>
T_owner == <<"g", "#", "a", "/", "b">>
T_trail == <<"x", " ", "g", "#", " ">>
T_tellUser == <<"t", "e", "l", "l", " ", "<", "@", "U", "1", ">", " ", "x">>
T_tellLabel == <<"t", "e", "l", "l", " ", "<", "#", "C", "2", "|", "g", ">", " ", "x", " ", "x">>
T_tellOther == <<"t", "e", "l", "l", " ", "<", "#", "A", "1", ">", " ", "x">>
T_tellPlain == <<"t", "e", "l", "l", " ", "x">>
T_tellUpper == <<"T", "e", "l", "l", " ", "<", "#", "C", "2", ">", " ", "x">>
T_inspectPlain == <<"i", "n", "s", "p", "e", "c", "t", " ", "x">>
T_inspectOther == <<"i", "n", "s", "p", "e", "c", "t", " ", "<", "@", "U", "2", ">">>

GithubTexts == {T_repos2, T_repos3, T_glued, T_owner, T_trail}
TellTexts == {T_tellUser, T_tellLabel, T_tellOther, T_tellPlain, T_tellUpper}
InspectTexts == {T_inspectPlain, T_inspectOther}

Texts == {T_hello, T_tell, T_repo, T_norepo, T_inspect, T_multi, T_help,
          T_stock, T_dot, T_crypto}

Ts1 == <<1, 1>>
Ts2 == <<2, 1>>

Users == {PlainUser, AdminUser, BotUserId}
Subtypes == {NoSubtype, "channel_topic"}

\* the messages of the single-delivery specification: every text with every
\* author, subtype and mention flag; the admin channel, an empty and an
\* absent timestamp and an absent text for the texts whose handlers read them
Messages ==
    {Msg(TRUE, t, u, PlainChannel, TRUE, Ts1, st, mn) :
        t \in Texts \cup {<<>>}, u \in Users, st \in Subtypes, mn \in BOOLEAN}
    \cup
    {Msg(TRUE, t, u, ADMIN_CHANNEL, TRUE, Ts1, NoSubtype, mn) :
        t \in {T_inspect, T_tell, T_multi}, u \in Users, mn \in BOOLEAN}
    \cup
    {Msg(TRUE, t, PlainUser, PlainChannel, hasTs, <<>>, NoSubtype, mn) :
        t \in {T_hello, T_stock}, hasTs \in BOOLEAN, mn \in BOOLEAN}
    \cup
    {Msg(TRUE, t, PlainUser, PlainChannel, TRUE, Ts1, NoSubtype, FALSE) :
        t \in GithubTexts}
    \cup
    {Msg(TRUE, t, AdminUser, PlainChannel, TRUE, Ts1, NoSubtype, TRUE) :
        t \in TellTexts}
    \cup
    {Msg(TRUE, t, AdminUser, ADMIN_CHANNEL, TRUE, Ts1, NoSubtype, TRUE) :
        t \in InspectTexts}
    \cup
    {Msg(FALSE, <<>>, u, PlainChannel, TRUE, Ts1, st, mn) :
        u \in {PlainUser, AdminUser}, st \in Subtypes, mn \in BOOLEAN}

\* the store: not loaded, loaded and empty, loaded with a channel and a user
Stores ==
    {[loaded |-> FALSE, channels |-> {}, users |-> {}],
     [loaded |-> TRUE, channels |-> {}, users |-> {}],
     [loaded |-> TRUE, channels |-> {PlainChannel}, users |-> {PlainUser}]}

InitCommon ==
    /\ registry = create_endpoints
    /\ identity = BotIdentity
    /\ \E st \in Stores :
          /\ pgLoaded = st.loaded
          /\ pg = [messages |-> <<>>, channels |-> st.channels, users |-> st.users]
    /\ msg = received
    /\ pos = [d \in Deliveries |-> IF received[d].present THEN 0 ELSE NumRules + 1]
    /\ observed = [d \in Deliveries |-> {}]
    /\ h = [d \in Deliveries |-> [r \in Rules |-> "idle"]]
    /\ invoked = [d \in Deliveries |-> [r \in Rules |-> 0]]
    /\ loc = [d \in Deliveries |-> [r \in Rules |-> NoLoc]]
    /\ out = [d \in Deliveries |-> [r \in Rules |-> <<>>]]
    /\ log = [d \in Deliveries |-> [r \in Rules |-> {}]]

\* one delivery
Init ==
    /\ received \in {[d \in Deliveries |-> IF d = 1 THEN m ELSE NoMsg] : m \in Messages}
    /\ InitCommon

\* the messages of the concurrent specification: delivery 1 carries one of
\* these, which between them reach every handler
FirstMessages ==
    {Msg(TRUE, T_hello, PlainUser, PlainChannel, TRUE, Ts1, NoSubtype, TRUE),
     Msg(TRUE, T_tell, AdminUser, PlainChannel, TRUE, Ts1, NoSubtype, TRUE),
     Msg(TRUE, T_repo, PlainUser, PlainChannel, TRUE, Ts2, "channel_topic", FALSE),
     Msg(TRUE, T_inspect, AdminUser, ADMIN_CHANNEL, TRUE, Ts1, NoSubtype, TRUE),
     Msg(TRUE, T_help, BotUserId, PlainChannel, TRUE, Ts1, NoSubtype, TRUE),
     Msg(TRUE, T_stock, PlainUser, PlainChannel, TRUE, Ts1, NoSubtype, FALSE),
     Msg(TRUE, T_crypto, PlainUser, PlainChannel, TRUE, Ts2, NoSubtype, FALSE)}

\* every further delivery carries this message, whose timestamp is Ts1 and
\* which only the rule of save_in_database matches
NextMessage == Msg(TRUE, T_hello, AdminUser, PlainChannel, TRUE, Ts1, NoSubtype, FALSE)

\* MaxDeliveries deliveries in flight at once, the store loaded and empty
InitConc ==
    /\ received \in {[d \in Deliveries |-> IF d = 1 THEN m ELSE NextMessage] :
                        m \in FirstMessages}
    /\ InitCommon
    /\ pgLoaded /\ pg.channels = {}

\* ------------------------------------------------------------- dispatcher
\* the rules matching delivery d, evaluated on the message as delivered
Matched(d) == {r \in Rules : Matches(registry[r], received[d], identity)}

\* section 4.3: the rules are taken in registration order; a matching
\* fire-and-forget rule is scheduled and passed, a matching blocking rule is
\* invoked and awaited.  Between two awaits the dispatcher does not suspend.
Dispatch(d) ==
    /\ pos[d] <= NumRules
    /\ pos[d] \in Rules => h[d][pos[d]] \in Terminal
    /\ LET later == {r \in Matched(d) : r > pos[d]}
           blocking == {r \in later : registry[r].wait}
           stop == IF blocking = {} THEN NumRules + 1
                   ELSE CHOOSE r \in blocking : \A r2 \in blocking : r <= r2
           started == {r \in later : r <= stop}
       IN /\ pos' = [pos EXCEPT ![d] = stop]
          /\ h' = [h EXCEPT ![d] = [r \in Rules |-> IF r \in started THEN "start" ELSE @[r]]]
          /\ invoked' = [invoked EXCEPT ![d] =
                            [r \in Rules |-> IF r \in started THEN @[r] + 1 ELSE @[r]]]
          /\ observed' = [observed EXCEPT ![d] =
                            IF pos[d] \in Rules THEN @ \cup {pos[d]} ELSE @]
    /\ UNCHANGED <<registry, identity, pgLoaded, pg, received, msg, loc, out, log>>

\* --------------------------------------------------------------- handlers
Goto(d, r, pc) == h' = [h EXCEPT ![d][r] = pc]
Issue(d, r, api, arg) == out' = [out EXCEPT ![d][r] = Append(@, Call(api, arg))]
Logs(d, r, level) == log' = [log EXCEPT ![d][r] = @ \cup {level}]
\* the outcome of the collaborator call the handler was suspended on
Result(d, r, o) == loc' = [loc EXCEPT ![d][r].res = Append(@, o)]

\* chat.postMessage returned: the handler ends, normally or with the
\* SlackAPIError it does not catch
PostReturned(d, r) ==
    /\ h[d][r] = "await_post"
    /\ \E ok \in BOOLEAN : Goto(d, r, IF ok THEN "done" ELSE "failed")
    /\ UNCHANGED <<registry, identity, pgLoaded, pg, received, msg, pos, observed,
                   invoked, loc, out, log>>

hello(d) ==
    \/ /\ h[d][R_hello] = "start"
       /\ LET response == [Response(msg[d]) EXCEPT
                              !.text = <<"Hello <@">> \o msg[d].user \o <<">">>]
          IN Issue(d, R_hello, "post", response)
       /\ Goto(d, R_hello, "await_post")
       /\ UNCHANGED <<registry, identity, pgLoaded, pg, received, msg, pos, observed,
                      invoked, loc, log>>
    \/ PostReturned(d, R_hello)

help_message(d) ==
    \/ /\ h[d][R_help] = "start"
       /\ LET response == [Response(msg[d]) EXCEPT
                              !.text = <<"Sir Bot-a-lot help">>,
                              !.att = <<[color |-> "good", kind |-> "help"]>>]
          IN Issue(d, R_help, "post", response)
       /\ Goto(d, R_help, "await_post")
       /\ UNCHANGED <<registry, identity, pgLoaded, pg, received, msg, pos, observed,
                      invoked, loc, log>>
    \/ PostReturned(d, R_help)

\* any destination accepted
StartsWithAnything(id) == TRUE

\* to_id.startswith(("C", "U"))
StartsWithCU(id) == Len(id) >= 1 /\ id[1] \in {"C", "U"}

tell(d) ==
    \/ /\ h[d][R_tell] = "start"
       /\ IF ~msg[d].hasText
          THEN \* message["text"] raises KeyError
               /\ Goto(d, R_tell, "failed")
               /\ UNCHANGED out
          ELSE LET match == TELL_REGEX(msg[d].text)
                   draft == Response(msg[d])
                   response ==
                       IF match.ok
                       THEN IF StartsWithCU(match.to_id)
                            THEN [draft EXCEPT !.text = match.msg, !.channel = match.to_id]
                            ELSE [draft EXCEPT !.text =
                                     <<"Sorry I can not understand the destination.">>]
                       ELSE [draft EXCEPT !.text = <<"Sorry I can not understand">>]
               IN /\ Issue(d, R_tell, "post", response)
                  /\ Goto(d, R_tell, "await_post")
       /\ UNCHANGED <<registry, identity, pgLoaded, pg, received, msg, pos, observed,
                      invoked, loc, log>>
    \/ PostReturned(d, R_tell)

\* outcomes of reactions.add
ReactOutcomes == {"ok", "already_reacted", "other_error"}

\* reactions.add returned, every SlackAPIError swallowed
ReactReturnedSwallowed(d) ==
    /\ h[d][R_mention] = "await_react"
    /\ \E o \in ReactOutcomes :
          /\ Result(d, R_mention, o)
          /\ Goto(d, R_mention, "done")
    /\ UNCHANGED <<registry, identity, pgLoaded, pg, received, msg, pos, observed,
                   invoked, out, log>>

\* reactions.add returned: a SlackAPIError is re-raised unless its error is
\* "already_reacted"
ReactReturned(d) ==
    /\ h[d][R_mention] = "await_react"
    /\ \E o \in ReactOutcomes :
          /\ Result(d, R_mention, o)
          /\ Goto(d, R_mention, IF o = "other_error" THEN "failed" ELSE "done")
    /\ UNCHANGED <<registry, identity, pgLoaded, pg, received, msg, pos, observed,
                   invoked, out, log>>

mention(d) ==
    \/ /\ h[d][R_mention] = "start"
       /\ IF msg[d].user = identity.bot_user_id
          THEN Goto(d, R_mention, "done") /\ UNCHANGED out
          ELSE IF ~msg[d].hasTs
          THEN \* message["ts"] raises KeyError, which is not a SlackAPIError
               Goto(d, R_mention, "failed") /\ UNCHANGED out
          ELSE /\ Issue(d, R_mention, "react",
                        [name |-> "sirbot", channel |-> msg[d].channel,
                         timestamp |-> msg[d].ts])
               /\ Goto(d, R_mention, "await_react")
       /\ UNCHANGED <<registry, identity, pgLoaded, pg, received, msg, pos, observed,
                      invoked, loc, log>>
    \/ ReactReturned(d)

\* the arguments of the INSERT, evaluated when the statement is executed
Row(m) == [id |-> m.ts, hasText |-> m.hasText, text |-> m.text, user |-> m.user,
           channel |-> m.channel, raw |-> m, time |-> m.ts[1]]

HasRow(rows, id) == \E k \in 1..Len(rows) : rows[k].id = id

\* the INSERT returns, without the except clause
InsertReturnedUncaught(d) ==
    /\ h[d][R_save] = "await_execute"
    /\ LET row == out[d][R_save][Len(out[d][R_save])].arg
       IN IF HasRow(pg.messages, row.id)
          THEN /\ Goto(d, R_save, "failed")
               /\ UNCHANGED <<pg, log>>
          ELSE \E ok \in BOOLEAN :
                  IF ok THEN /\ pg' = [pg EXCEPT !.messages = Append(@, row)]
                             /\ Goto(d, R_save, "done")
                             /\ UNCHANGED log
                        ELSE /\ Goto(d, R_save, "failed")
                             /\ UNCHANGED <<pg, log>>
    /\ UNCHANGED <<registry, identity, pgLoaded, received, msg, pos, observed,
                   invoked, loc, out>>

\* the INSERT returns: UniqueViolationError when the id is stored, which
\* the handler catches and logs at debug level
InsertReturned(d) ==
    /\ h[d][R_save] = "await_execute"
    /\ LET row == out[d][R_save][Len(out[d][R_save])].arg
       IN IF HasRow(pg.messages, row.id)
          THEN /\ Logs(d, R_save, "debug")
               /\ Goto(d, R_save, "done")
               /\ UNCHANGED pg
          ELSE \E ok \in BOOLEAN :
                  IF ok THEN /\ pg' = [pg EXCEPT !.messages = Append(@, row)]
                             /\ Goto(d, R_save, "done")
                             /\ UNCHANGED log
                        ELSE /\ Goto(d, R_save, "failed")
                             /\ UNCHANGED <<pg, log>>
    /\ UNCHANGED <<registry, identity, pgLoaded, received, msg, pos, observed,
                   invoked, loc, out>>

save_in_database(d) ==
    \/ /\ h[d][R_save] = "start"
       /\ IF ~pgLoaded THEN Goto(d, R_save, "done")
          ELSE IF ~msg[d].hasTs
          THEN \* message["ts"] raises KeyError
               Goto(d, R_save, "failed")
          ELSE IF msg[d].ts = <<>> THEN Goto(d, R_save, "done")
          ELSE Goto(d, R_save, "await_conn")
       /\ UNCHANGED <<registry, identity, pgLoaded, pg, received, msg, pos, observed,
                      invoked, loc, out, log>>
    \/ \* the connection is acquired (or not); the INSERT is sent with the
       \* message as it is now
       /\ h[d][R_save] = "await_conn"
       /\ \E ok \in BOOLEAN :
             IF ok THEN /\ Issue(d, R_save, "insert", Row(msg[d]))
                        /\ Goto(d, R_save, "await_execute")
                   ELSE Goto(d, R_save, "failed") /\ UNCHANGED out
       /\ UNCHANGED <<registry, identity, pgLoaded, pg, received, msg, pos, observed,
                      invoked, loc, log>>
    \/ InsertReturned(d)

\* the author test with the comparison to the bot dropped
TopicAuthorNotAdmin(m, id) == m.user \notin id.admins

\* the author test of channel_topic
TopicAuthor(m, id) == m.user \notin id.admins /\ m.user # id.bot_user_id

channel_topic(d) ==
    \/ /\ h[d][R_topic] = "start"
       /\ IF TopicAuthor(msg[d], identity)
          THEN IF ~pgLoaded
               THEN \* app["plugins"]["pg"] raises KeyError
                    Goto(d, R_topic, "failed") /\ UNCHANGED out
               ELSE /\ Issue(d, R_topic, "fetch_channel", msg[d].channel)
                    /\ Goto(d, R_topic, "await_fetch")
          ELSE Goto(d, R_topic, "done") /\ UNCHANGED out
       /\ UNCHANGED <<registry, identity, pgLoaded, pg, received, msg, pos, observed,
                      invoked, loc, log>>
    \/ \* the connection and the SELECT returned, or one of them failed
       /\ h[d][R_topic] = "await_fetch"
       /\ \E ok \in BOOLEAN :
             IF ~ok THEN Goto(d, R_topic, "failed") /\ UNCHANGED out
             ELSE LET channel == msg[d].channel \in pg.channels
                      old_topic == IF channel THEN <<"topic of ">> \o msg[d].channel
                                   ELSE <<"Original topic not found">>
                      response ==
                          [channel |-> ADMIN_CHANNEL, text |-> <<>>,
                           att |-> <<[kind |-> "topic", user |-> msg[d].user,
                                      channel |-> msg[d].channel,
                                      previous |-> old_topic,
                                      new |-> <<"topic">>,
                                      actions |-> IF channel THEN <<"validate", "revert">>
                                                  ELSE <<>>]>>]
                  IN /\ Issue(d, R_topic, "post", response)
                     /\ Goto(d, R_topic, "await_post")
       /\ UNCHANGED <<registry, identity, pgLoaded, pg, received, msg, pos, observed,
                      invoked, loc, log>>
    \/ PostReturned(d, R_topic)

\* one pass of the loop body of github_repo_link up to its GET: the
\* occurrence is cut out of message["text"] itself
GithubPass(d, left, res) ==
    LET text == msg[d].text
        start == Find(text, <<"g", "#">>) + 2
        repo == FirstToken(Slice(text, start))
        len_to_remove == (start + Len(repo)) + 2
        full == IF "/" \in {repo[k] : k \in 1..Len(repo)} THEN repo
                ELSE <<"pyslackers/">> \o repo
        url == <<"https://github.com/">> \o full
    IN IF left = 0
       THEN /\ Goto(d, R_github, "done")
            /\ loc' = [loc EXCEPT ![d][R_github].res = res]
            /\ UNCHANGED <<msg, out>>
       ELSE IF repo = <<>>
       THEN \* split()[0] raises IndexError
            /\ Goto(d, R_github, "failed")
            /\ loc' = [loc EXCEPT ![d][R_github].res = res]
            /\ UNCHANGED <<msg, out>>
       ELSE /\ msg' = [msg EXCEPT ![d].text = Slice(text, len_to_remove)]
            /\ Issue(d, R_github, "get", url)
            /\ loc' = [loc EXCEPT ![d][R_github].left = left - 1,
                                  ![d][R_github].resp = [@ EXCEPT !.text = url],
                                  ![d][R_github].res = res]
            /\ Goto(d, R_github, "await_get")

\* statuses of the link check
GetStatuses == {200, 404}

\* the outcomes github_repo_link keeps apart
StatusName(status) == IF status = 200 THEN "200" ELSE "other"

github_repo_link(d) ==
    \/ /\ h[d][R_github] = "start"
       /\ IF msg[d].hasText /\ msg[d].text # <<>>
          THEN GithubPass(d, Count(msg[d].text, <<"g", "#">>), <<>>)
          ELSE Goto(d, R_github, "done") /\ UNCHANGED <<msg, out, loc>>
       /\ UNCHANGED <<registry, identity, pgLoaded, pg, received, pos, observed,
                      invoked, log>>
    \/ /\ h[d][R_github] = "await_get"
       /\ \E status \in GetStatuses :
             LET res == Append(loc[d][R_github].res, StatusName(status))
             IN IF status = 200
                THEN /\ Issue(d, R_github, "post",
                              [Response(msg[d]) EXCEPT !.text = loc[d][R_github].resp.text])
                     /\ Goto(d, R_github, "await_post")
                     /\ loc' = [loc EXCEPT ![d][R_github].res = res]
                     /\ UNCHANGED msg
                ELSE GithubPass(d, loc[d][R_github].left, res)
       /\ UNCHANGED <<registry, identity, pgLoaded, pg, received, pos, observed,
                      invoked, log>>
    \/ /\ h[d][R_github] = "await_post"
       /\ \E ok \in BOOLEAN :
             LET res == Append(loc[d][R_github].res, IF ok THEN "ok" ELSE "error")
             IN IF ok THEN GithubPass(d, loc[d][R_github].left, res)
                ELSE /\ Goto(d, R_github, "failed")
                     /\ loc' = [loc EXCEPT ![d][R_github].res = res]
                     /\ UNCHANGED <<msg, out>>
       /\ UNCHANGED <<registry, identity, pgLoaded, pg, received, pos, observed,
                      invoked, log>>

\* the guard with the channel test dropped
InspectGuardAnyChannel(m) == m.hasText /\ m.text # <<>>

\* the guard of inspect
InspectGuard(m) == m.channel = ADMIN_CHANNEL /\ m.hasText /\ m.text # <<>>

inspect(d) ==
    \/ /\ h[d][R_inspect] = "start"
       /\ IF InspectGuard(msg[d])
          THEN LET match == InspectSearch(msg[d].text)
               IN IF match.ok
                  THEN IF ~pgLoaded
                       THEN \* app["plugins"]["pg"] raises KeyError
                            Goto(d, R_inspect, "failed") /\ UNCHANGED <<out, loc>>
                       ELSE /\ Issue(d, R_inspect, "fetch_user", match.id)
                            /\ loc' = [loc EXCEPT ![d][R_inspect].sym = match.id]
                            /\ Goto(d, R_inspect, "await_fetch")
                  ELSE /\ Issue(d, R_inspect, "post",
                                [Response(msg[d]) EXCEPT !.text =
                                    <<"Sorry I couldn't figure out which user to inspect">>])
                       /\ Goto(d, R_inspect, "await_post")
                       /\ UNCHANGED loc
          ELSE Goto(d, R_inspect, "done") /\ UNCHANGED <<out, loc>>
       /\ UNCHANGED <<registry, identity, pgLoaded, pg, received, msg, pos, observed,
                      invoked, log>>
    \/ /\ h[d][R_inspect] = "await_fetch"
       /\ \E ok \in BOOLEAN :
             IF ~ok THEN Goto(d, R_inspect, "failed") /\ UNCHANGED out
             ELSE IF loc[d][R_inspect].sym \in pg.users
             THEN /\ Issue(d, R_inspect, "post",
                           [Response(msg[d]) EXCEPT !.text =
                               <<"<@">> \o loc[d][R_inspect].sym
                                        \o <<"> profile information", "stored">>])
                  /\ Goto(d, R_inspect, "await_post")
             ELSE /\ Issue(d, R_inspect, "users_info", loc[d][R_inspect].sym)
                  /\ Goto(d, R_inspect, "await_info")
       /\ UNCHANGED <<registry, identity, pgLoaded, pg, received, msg, pos, observed,
                      invoked, loc, log>>
    \/ /\ h[d][R_inspect] = "await_info"
       /\ \E ok \in BOOLEAN :
             IF ~ok THEN Goto(d, R_inspect, "failed") /\ UNCHANGED out
             ELSE /\ Issue(d, R_inspect, "post",
                           [Response(msg[d]) EXCEPT !.text =
                               <<"<@">> \o loc[d][R_inspect].sym
                                        \o <<"> profile information", "fetched">>])
                  /\ Goto(d, R_inspect, "await_post")
       /\ UNCHANGED <<registry, identity, pgLoaded, pg, received, msg, pos, observed,
                      invoked, loc, log>>
    \/ PostReturned(d, R_inspect)

\* the backquote character of the response texts
BQ == "backquote"

\* outcomes of a call of the quote API: a result, ClientResponseError with
\* status 404, ClientResponseError with another status
QuoteOutcomes == {"ok", "404", "error"}

\* the except branch with the status test dropped
StockFailedAnyStatus(d, o) ==
    LET text == <<"Unable to retrieve quotes right now.">>
    IN /\ Issue(d, R_stock, "post", [loc[d][R_stock].resp EXCEPT !.text = text])
       /\ Logs(d, R_stock, "error")
       /\ Goto(d, R_stock, "await_post")

\* the except branch of stock_quote
StockFailed(d, o) ==
    LET symbol == loc[d][R_stock].sym
        text == IF o = "404"
                THEN <<"The symbol ", BQ>> \o symbol \o <<BQ, " could not be found.">>
                ELSE <<"Unable to retrieve quotes right now.">>
    IN /\ Issue(d, R_stock, "post", [loc[d][R_stock].resp EXCEPT !.text = text])
       /\ IF o = "404" THEN UNCHANGED log ELSE Logs(d, R_stock, "error")
       /\ Goto(d, R_stock, "await_post")

\* the colour of the attachment, from quote.get("change", 0)
Color(change) == IF change > 0 THEN "good" ELSE IF change < 0 THEN "danger" ELSE "gray"

Changes == {-1, 0, 1}

stock_quote(d) ==
    \/ /\ h[d][R_stock] = "start"
       /\ LET symbol == STOCK_REGEX(msg[d].text)
          IN IF symbol = <<>>
             THEN Goto(d, R_stock, "done") /\ UNCHANGED <<loc, out>>
             ELSE /\ loc' = [loc EXCEPT ![d][R_stock].sym = symbol,
                                        ![d][R_stock].resp = Response(msg[d])]
                  /\ Issue(d, R_stock, "book", symbol)
                  /\ Goto(d, R_stock, "await_book")
       /\ UNCHANGED <<registry, identity, pgLoaded, pg, received, msg, pos, observed,
                      invoked, log>>
    \/ /\ h[d][R_stock] = "await_book"
       /\ \E o \in QuoteOutcomes :
             /\ Result(d, R_stock, o)
             /\ IF o = "ok"
                THEN /\ Issue(d, R_stock, "logo", loc[d][R_stock].sym)
                     /\ Goto(d, R_stock, "await_logo")
                     /\ UNCHANGED log
                ELSE StockFailed(d, o)
       /\ UNCHANGED <<registry, identity, pgLoaded, pg, received, msg, pos, observed,
                      invoked>>
    \/ /\ h[d][R_stock] = "await_logo"
       /\ \E o \in QuoteOutcomes :
             /\ Result(d, R_stock, o)
             /\ IF o = "ok"
                THEN \E change \in Changes :
                        /\ Issue(d, R_stock, "post",
                                 [loc[d][R_stock].resp EXCEPT !.att =
                                     <<[kind |-> "quote", symbol |-> loc[d][R_stock].sym,
                                        color |-> Color(change)]>>])
                        /\ Goto(d, R_stock, "await_post")
                        /\ UNCHANGED log
                ELSE StockFailed(d, o)
       /\ UNCHANGED <<registry, identity, pgLoaded, pg, received, msg, pos, observed,
                      invoked>>
    \/ PostReturned(d, R_stock)

\* outcomes of stocks.crypto(): a listing with or without <symbol>USDT, or
\* ClientResponseError
CryptoOutcomes == {"listed", "unlisted", "error"}

crypto_quote(d) ==
    \/ /\ h[d][R_crypto] = "start"
       /\ LET symbol == STOCK_REGEX(msg[d].text)
          IN IF symbol = <<>>
             THEN Goto(d, R_crypto, "done") /\ UNCHANGED <<loc, out>>
             ELSE /\ loc' = [loc EXCEPT ![d][R_crypto].sym = symbol,
                                        ![d][R_crypto].resp = Response(msg[d])]
                  /\ Issue(d, R_crypto, "crypto", symbol)
                  /\ Goto(d, R_crypto, "await_crypto")
       /\ UNCHANGED <<registry, identity, pgLoaded, pg, received, msg, pos, observed,
                      invoked, log>>
    \/ /\ h[d][R_crypto] = "await_crypto"
       /\ \E o \in CryptoOutcomes :
          /\ Result(d, R_crypto, o)
          /\ CASE o = "listed" ->
                    \E change \in Changes :
                       /\ Issue(d, R_crypto, "post",
                                [loc[d][R_crypto].resp EXCEPT !.att =
                                    <<[kind |-> "quote", symbol |-> loc[d][R_crypto].sym,
                                       color |-> Color(change)]>>])
                       /\ Goto(d, R_crypto, "await_post")
                       /\ UNCHANGED log
               [] o = "unlisted" ->
                    /\ Issue(d, R_crypto, "post",
                             [loc[d][R_crypto].resp EXCEPT !.text =
                                 <<"The crypto symbol ", BQ>> \o loc[d][R_crypto].sym
                                     \o <<BQ, " could not be found">>])
                    /\ Goto(d, R_crypto, "await_post")
                    /\ UNCHANGED log
               [] o = "error" ->
                    \* the except branch logs; 'quote' was never assigned and
                    \* 'if quote is not None' raises UnboundLocalError
                    /\ Logs(d, R_crypto, "error")
                    /\ Goto(d, R_crypto, "failed")
                    /\ UNCHANGED out
       /\ UNCHANGED <<registry, identity, pgLoaded, pg, received, msg, pos, observed,
                      invoked>>
    \/ PostReturned(d, R_crypto)

Next ==
    \E d \in Deliveries :
        \/ Dispatch(d)
        \/ hello(d)
        \/ tell(d)
        \/ mention(d)
        \/ save_in_database(d)
        \/ channel_topic(d)
        \/ github_repo_link(d)
        \/ inspect(d)
        \/ help_message(d)
        \/ stock_quote(d)
        \/ crypto_quote(d)


Spec == Init /\ [][Next]_vars

SpecConc == InitConc /\ [][Next]_vars
\* ================================================================= claims
Returned(d) == pos[d] = NumRules + 1

Posts(d, r) == SelectSeq(out[d][r], LAMBDA c : c.api = "post")

\* the predicates of the ten registrations, as the claims state them
HasPattern(m) == m.hasText /\ m.text # <<>>

Holds(r, m) ==
    /\ m.present /\ HasPattern(m)
    /\ CASE r = R_hello -> m.mention /\ PatternSearch(Lit(<<"h", "e", "l", "l", "o">>, TRUE), m.text)
         [] r = R_tell -> /\ m.mention /\ m.user \in BotIdentity.admins
                          /\ PatternSearch(Prefix(<<"t", "e", "l", "l">>, TRUE), m.text)
         [] r = R_mention -> m.mention
         [] r = R_save -> TRUE
         [] r = R_topic -> m.subtype = "channel_topic"
         [] r = R_github -> PatternSearch(Lit(<<"g", "#">>, FALSE), m.text)
         [] r = R_inspect -> /\ m.mention /\ m.user \in BotIdentity.admins
                             /\ PatternSearch(Prefix(<<"i", "n", "s", "p", "e", "c", "t">>, TRUE), m.text)
         [] r = R_help -> m.mention /\ PatternSearch(Prefix(<<"h", "e", "l", "p">>, TRUE), m.text)
         [] r = R_stock -> PatternSearch(Quote(<<"s">>), m.text)
         [] r = R_crypto -> PatternSearch(Quote(<<"c">>), m.text)

FireAndForget == {R_save, R_stock, R_crypto}
BlockingRules == Rules \ FireAndForget

\* C1: every rule whose predicates hold for the delivered message has its
\* handler invoked exactly once by the time dispatch returns, no handler of
\* another rule is ever invoked, and no handler is invoked twice
C1_AllMatchingOnce ==
    \A d \in Deliveries : \A r \in Rules :
        /\ invoked[d][r] <= 1
        /\ invoked[d][r] = 1 => Holds(r, received[d])
        /\ Returned(d) /\ Holds(r, received[d]) => invoked[d][r] = 1

\* a mentioning "Hello" was dispatched: hello and mention both ran
C1_Witness ==
    \E d \in Deliveries :
        /\ Returned(d) /\ received[d].text = T_hello /\ received[d].mention
        /\ invoked[d][R_hello] = 1 /\ invoked[d][R_mention] = 1
        /\ h[d][R_mention] = "done" /\ h[d][R_hello] = "done"

\* C2: a message of a non-admin user never invokes tell or inspect
C2_AdminOnly ==
    \A d \in Deliveries :
        received[d].present /\ received[d].user \notin BotIdentity.admins
            => invoked[d][R_tell] = 0 /\ invoked[d][R_inspect] = 0

\* a mentioning "tell ..." of a non-admin was dispatched to the end
C2_Witness ==
    \E d \in Deliveries :
        /\ Returned(d) /\ received[d].text = T_tell /\ received[d].mention
        /\ received[d].user = PlainUser
        /\ invoked[d][R_mention] = 1 /\ invoked[d][R_tell] = 0

\* C3: a message with an empty or absent text invokes no handler at all and
\* fails nowhere
C3_NoTextNoHandler ==
    \A d \in Deliveries :
        received[d].present /\ ~HasPattern(received[d])
            => \A r \in Rules : invoked[d][r] = 0 /\ h[d][r] = "idle"

\* a mentioning channel_topic message without a text key was dispatched
C3_Witness ==
    \E d \in Deliveries :
        /\ Returned(d) /\ received[d].present /\ ~received[d].hasText
        /\ received[d].mention /\ received[d].subtype = "channel_topic"

\* C4: of two blocking rules matching one message, the handler of the later
\* one is not started, and has issued no call, before the handler of the
\* earlier one has ended
C4_BlockingInOrder ==
    \A d \in Deliveries : \A a \in BlockingRules : \A b \in BlockingRules :
        a < b /\ h[d][a] # "idle" /\ (h[d][b] # "idle" \/ out[d][b] # <<>>)
            => h[d][a] \in Terminal

\* hello has posted and ended, mention has then issued its reaction
C4_Witness ==
    \E d \in Deliveries :
        /\ h[d][R_hello] = "done" /\ Len(Posts(d, R_hello)) = 1
        /\ h[d][R_mention] = "await_react"

\* C5: when mention has failed, every matching rule registered after it is
\* invoked all the same, and rule list and identity are as constructed
C5_FailureIsolated ==
    \A d \in Deliveries :
        h[d][R_mention] = "failed" /\ Returned(d)
            => /\ \A r \in Rules : r > R_mention /\ Holds(r, received[d])
                                      => invoked[d][r] = 1
               /\ registry = create_endpoints
               /\ identity = BotIdentity

\* mention failed on "help g#a s$A"; save, github, help and stock ran
C5_Witness ==
    \E d \in Deliveries :
        /\ h[d][R_mention] = "failed" /\ Returned(d)
        /\ Len(out[d][R_mention]) = 1
        /\ received[d].text = T_multi
        /\ \A r \in {R_save, R_github, R_help, R_stock} : invoked[d][r] = 1
        /\ h[d][R_help] = "done"

\* C6: when save_in_database has failed, the dispatcher has not observed it,
\* and every matching blocking rule registered after it has been invoked
\* and has ended by the time dispatch returns
C6_DetachedFailure ==
    \A d \in Deliveries :
        h[d][R_save] = "failed"
            => /\ R_save \notin observed[d]
               /\ Returned(d) =>
                    \A r \in BlockingRules : r > R_save /\ Holds(r, received[d])
                        => invoked[d][r] = 1 /\ h[d][r] \in Terminal

\* the INSERT of save_in_database failed; channel_topic and github ran to
\* their end afterwards
C6_Witness ==
    \E d \in Deliveries :
        /\ h[d][R_save] = "failed" /\ Len(out[d][R_save]) = 1
        /\ Returned(d)
        /\ h[d][R_topic] = "done" /\ h[d][R_github] = "done"

\* the rows stored under an identifier
RowsOf(id) == {k \in 1..Len(pg.messages) : pg.messages[k].id = id}

SaveCompleted(d) ==
    /\ h[d][R_save] = "done" /\ pgLoaded
    /\ received[d].hasTs /\ received[d].ts # <<>>

\* C7: however the deliveries interleave, no identifier has two rows, a
\* delivery whose save_in_database completed has exactly one row, the INSERT
\* is issued at most once per delivery, nothing is logged at error level, and
\* an INSERT that meets a stored identifier ends the handler normally
C7_OneRowPerId ==
    /\ [](\A d \in Deliveries :
            /\ Len(out[d][R_save]) <= 1
            /\ "error" \notin log[d][R_save]
            /\ received[d].hasTs => Cardinality(RowsOf(received[d].ts)) <= 1
            /\ SaveCompleted(d) => Cardinality(RowsOf(received[d].ts)) = 1)
    /\ [][\A d \in Deliveries :
            /\ h[d][R_save] = "await_execute"
            /\ h'[d][R_save] # "await_execute"
            /\ HasRow(pg.messages, received[d].ts)
            => h'[d][R_save] = "done" /\ pg' = pg]_vars

\* two deliveries with the same timestamp were both saved: one inserted,
\* the other met the uniqueness violation
C7_Witness ==
    /\ \A d \in {1, 2} : SaveCompleted(d) /\ received[d].ts = Ts1
    /\ \E d \in {1, 2} : "debug" \in log[d][R_save]
    /\ Len(pg.messages) = 1

\* C8: a dispatch that is not awaiting a blocking handler of its own message
\* can always proceed, whatever the fire-and-forget handlers of its message
\* and the handlers of other messages are doing
C8_NeverWaitsForDetached ==
    \A d \in Deliveries :
        /\ ~Returned(d)
        /\ \A r \in BlockingRules : h[d][r] \in Terminal \cup {"idle"}
        => ENABLED Dispatch(d)

\* the stock_quote of delivery 1 is still waiting for its quote while its
\* dispatch has returned and delivery 2 was dispatched and saved
C8_Witness ==
    /\ h[1][R_stock] = "await_book" /\ Returned(1)
    /\ Returned(2) /\ h[2][R_save] = "done" /\ Len(out[2][R_save]) = 1

\* C9 (as claimed): when the crypto listing fails with an HTTP response
\* error, crypto_quote logs it and ends without raising
C9_CryptoErrorAbsorbed ==
    \A d \in Deliveries :
        "error" \in log[d][R_crypto] => h[d][R_crypto] # "failed"

\* the response stock_quote owes for the outcomes of its lookups
StockText(symbol, res) ==
    IF res[Len(res)] = "404"
    THEN <<"The symbol ", BQ>> \o symbol \o <<BQ, " could not be found.">>
    ELSE IF res[Len(res)] = "error"
    THEN <<"Unable to retrieve quotes right now.">>
    ELSE <<>>

LookupsOver(res) == res # <<>> /\ (res[Len(res)] # "ok" \/ Len(res) = 2)

\* C10: stock_quote run on a text with a symbol posts nothing before its
\* lookups are over and exactly one response after; a 404 of either lookup
\* gives the not-found text, another error the unavailable text, both
\* without attachment; two successes give one attachment and no text.
\* (The text is stable while stock_quote runs: github_repo_link, the one
\* handler that rewrites it, has ended before stock_quote is scheduled.)
C10_StockOneResponse ==
    \A d \in Deliveries :
        LET symbol == STOCK_REGEX(msg[d].text)
            res == loc[d][R_stock].res
            posts == Posts(d, R_stock)
        IN /\ h[d][R_stock] \notin {"idle", "start"}
           /\ symbol # <<>>
           => IF LookupsOver(res)
              THEN /\ Len(posts) = 1
                   /\ posts[1].arg.text = StockText(symbol, res)
                   /\ Len(posts[1].arg.att) = (IF res = <<"ok", "ok">> THEN 1 ELSE 0)
                   /\ posts[1].arg.channel = msg[d].channel
              ELSE /\ posts = <<>>
                   /\ h[d][R_stock] \in {"await_book", "await_logo"}

\* the quote lookup succeeded, the logo lookup answered 404, and the
\* not-found text for symbol A was posted
C10_Witness ==
    \E d \in Deliveries :
        /\ loc[d][R_stock].res = <<"ok", "404">>
        /\ h[d][R_stock] = "done"
        /\ Len(Posts(d, R_stock)) = 1
        /\ Posts(d, R_stock)[1].arg.text =
              <<"The symbol ", BQ, "A", BQ, " could not be found.">>


\* C11: once the reaction call of mention has returned, the handler has
\* ended: normally when the reaction was added or the error was
\* "already_reacted", failed on every other error; the call is issued once
C11_AlreadyReactedIsSuccess ==
    \A d \in Deliveries :
        LET res == loc[d][R_mention].res
        IN /\ Len(out[d][R_mention]) <= 1
           /\ Len(res) <= 1
           /\ res # <<>> =>
                /\ Len(out[d][R_mention]) = 1
                /\ h[d][R_mention] = (IF res[1] = "other_error" THEN "failed" ELSE "done")
           /\ h[d][R_mention] = "done" /\ out[d][R_mention] # <<>>
                => res \in {<<"ok">>, <<"already_reacted">>}

\* the reaction call answered "already_reacted" and mention ended normally
C11_Witness ==
    \E d \in Deliveries :
        /\ loc[d][R_mention].res = <<"already_reacted">>
        /\ h[d][R_mention] = "done" /\ Returned(d)


NotAdminNorBot(m) == m.user \notin BotIdentity.admins /\ m.user # BotUserId

C13_MessageImmutable ==
    \A d \in Deliveries : msg[d] = received[d]

\* C14 (as claimed): the INSERT issued for a delivery carries the text and
\* the raw payload of the message as delivered
C14_RowAsReceived ==
    \A d \in Deliveries :
        \A i \in 1..Len(out[d][R_save]) :
            /\ out[d][R_save][i].arg.text = received[d].text
            /\ out[d][R_save][i].arg.raw = received[d]


\* C15 (as claimed): github_repo_link never ends with an exception of its
\* own: when it failed, it was the chat API that refused its last post
C15_GithubNeverRaises ==
    \A d \in Deliveries :
        h[d][R_github] = "failed" =>
            LET res == loc[d][R_github].res
            IN res # <<>> /\ res[Len(res)] = "error"

\* the repository names of a text, one per occurrence of 'g#'
RECURSIVE RepoNames(_)
RepoNames(s) ==
    LET k == Find(s, <<"g", "#">>)
        name == FirstToken(Slice(s, k + 2))
    IN IF k = -1 THEN <<>>
       ELSE <<name>> \o RepoNames(Slice(s, k + 2 + Len(name)))

\* every occurrence is directly followed by a name that holds no 'g#'
WellFormedRepos(s) ==
    /\ \A k \in 0..Len(s) : OccursAt(s, <<"g", "#">>, k, FALSE)
                               => k + 3 <= Len(s) /\ s[k + 3] \notin SpaceChars
    /\ \A i \in 1..Len(RepoNames(s)) : Find(RepoNames(s)[i], <<"g", "#">>) = -1

RepoUrl(name) ==
    <<"https://github.com/">>
        \o (IF \E k \in 1..Len(name) : name[k] = "/" THEN <<>> ELSE <<"pyslackers/">>)
        \o name

Gets(d) == SelectSeq(out[d][R_github], LAMBDA c : c.api = "get")

\* C16 (as claimed): for a text with k well-formed occurrences of 'g#',
\* github_repo_link, unless the chat API refused a post, ends having issued
\* k GETs, the i-th for the i-th name, and one post per answer 200
C16_OneGetPerOccurrence ==
    \A d \in Deliveries :
        LET names == RepoNames(received[d].text)
            res == loc[d][R_github].res
            statuses == SelectSeq(res, LAMBDA o : o \in {"200", "other"})
            oks == SelectSeq(res, LAMBDA o : o = "200")
        IN /\ h[d][R_github] \in Terminal
           /\ WellFormedRepos(received[d].text)
           /\ \A i \in 1..Len(res) : res[i] # "error"
           => /\ h[d][R_github] = "done"
              /\ Len(Gets(d)) = Len(names)
              /\ \A i \in 1..Len(names) : Gets(d)[i].arg = RepoUrl(names[i])
              /\ Len(statuses) = Len(names)
              /\ Len(Posts(d, R_github)) = Len(oks)

\* C17 (as claimed): save_in_database on a message with an absent or empty
\* timestamp issues no INSERT and does not fail; without the 'pg' plugin it
\* issues nothing at all
C17_NoTimestampNoInsert ==
    \A d \in Deliveries :
        /\ received[d].present /\ (~received[d].hasTs \/ received[d].ts = <<>>)
              => out[d][R_save] = <<>> /\ h[d][R_save] # "failed"
        /\ ~pgLoaded => out[d][R_save] = <<>>

\* 'tell <#ID> msg' or 'tell <@ID> msg', the id optionally followed by
\* '|label': [ok, id, msg]
TellForm(s) ==
    LET after == {k \in 8..Len(s) : s[k] \notin IdChars}
        e == CHOOSE k \in after : \A k2 \in after : k <= k2
        closes == {k \in e..Len(s) : s[k] = ">"}
        c == CHOOSE k \in closes : \A k2 \in closes : k <= k2
        ok == /\ Len(s) >= 7 /\ SubSeq(s, 1, 6) = TellPrefix /\ s[7] \in {"#", "@"}
              /\ after # {} /\ s[e] \in {">", "|"}
              /\ closes # {} /\ c < Len(s) /\ s[c + 1] = " "
    IN IF ok THEN [ok |-> TRUE, id |-> SubSeq(s, 8, e - 1), msg |-> Slice(s, c + 1)]
       ELSE [ok |-> FALSE, id |-> <<>>, msg |-> <<>>]

Apologies == {<<"Sorry I can not understand">>,
              <<"Sorry I can not understand the destination.">>}

HasUserMention(s) ==
    \E i \in 1..Len(s) : \E k \in (i + 2)..Len(s) :
        s[i] = "<" /\ s[i + 1] = "@" /\ s[k] = ">"

Infos(d) == SelectSeq(out[d][R_inspect], LAMBDA c : c.api = "users_info")

====
